---- MODULE Spec2Model ----
(***************************************************************************)
(* A model of the artvee-scraper crawl pipeline: the orchestrator          *)
(* ArtveeScraper.start, the worker pool it fans records out to, the        *)
(* context-manager exit of the scraper, and the pure resolvers the         *)
(* orchestrator calls (page counts, listing parser, detail-page resolver). *)
(*                                                                         *)
(* The site being scraped and the writer are the environment: every HTTP   *)
(* GET either raises a transport exception or answers with a status code   *)
(* and a body, and every writer call returns True, returns False or        *)
(* raises.  The orchestrator's main thread can receive a KeyboardInterrupt *)
(* while it executes start().                                              *)
(***************************************************************************)
EXTENDS Integers, Sequences, FiniteSets, TLC

----------------------------------------------------------------------------
(* Bounds of the model *)

\* the most metadata blocks a listing page holds
MaxRecords == 2
\* the largest page count a pagination response announces
MaxPages == 2
\* the largest worker_threads value of a run
MaxWorkers == 2
\* the most explicit page URLs of a run
MaxUrls == 2
\* the longest list of categories a caller requests
MaxRequested == 2
\* the most download anchors a detail page holds
MaxLinks == 2
\* elements of a pagination control given to the resolver on its own
MaxLabels == 3
MaxBlocks == 3
MaxAnchors == 3
MaxText == 7

----------------------------------------------------------------------------
(* Values *)

\* ArtveeScraper._ITEMS_PER_PAGE
ITEMS_PER_PAGE == 70

\* HTTP status the code tests for
HTTP_OK == 200
RETRY_TOTAL == 5

\* a category as the scraper meets it: a member of CategoryType, which has
\* the attribute value, or the plain string argparse produced, which has not;
\* str() of either is the value
Member(v) == [type |-> "CategoryType", value |-> v]
Str(v) == [type |-> "str", value |-> v]
HasValue(c) == c.type = "CategoryType"

\* class CategoryType(Enum): the members in declaration order, which is the
\* order list(CategoryType) yields
CategoryType ==
    << Member("abstract"), Member("figurative"), Member("landscape"),
       Member("religion"), Member("mythology"), Member("posters"),
       Member("animals"), Member("illustration"), Member("still-life"),
       Member("botanical"), Member("drawings"), Member("asian-art") >>

\* the code points of a category value
CodePoints(c) ==
    CASE c = "abstract"     -> <<97, 98, 115, 116, 114, 97, 99, 116>>
      [] c = "figurative"   -> <<102, 105, 103, 117, 114, 97, 116, 105, 118, 101>>
      [] c = "landscape"    -> <<108, 97, 110, 100, 115, 99, 97, 112, 101>>
      [] c = "religion"     -> <<114, 101, 108, 105, 103, 105, 111, 110>>
      [] c = "mythology"    -> <<109, 121, 116, 104, 111, 108, 111, 103, 121>>
      [] c = "posters"      -> <<112, 111, 115, 116, 101, 114, 115>>
      [] c = "animals"      -> <<97, 110, 105, 109, 97, 108, 115>>
      [] c = "illustration" -> <<105, 108, 108, 117, 115, 116, 114, 97, 116, 105, 111, 110>>
      [] c = "still-life"   -> <<115, 116, 105, 108, 108, 45, 108, 105, 102, 101>>
      [] c = "botanical"    -> <<98, 111, 116, 97, 110, 105, 99, 97, 108>>
      [] c = "drawings"     -> <<100, 114, 97, 119, 105, 110, 103, 115>>
      [] c = "asian-art"    -> <<97, 115, 105, 97, 110, 45, 97, 114, 116>>

\* Python's str.__lt__: lexicographic by code point, a proper prefix is smaller
RECURSIVE StrLt(_, _)
StrLt(a, b) ==
    IF Len(b) = 0 THEN FALSE
    ELSE IF Len(a) = 0 THEN TRUE
    ELSE IF Head(a) # Head(b) THEN Head(a) < Head(b)
    ELSE StrLt(Tail(a), Tail(b))

\* CategoryType.__lt__ for two members, str.__lt__ for two strings
CategoryType_lt(a, b) == StrLt(CodePoints(a.value), CodePoints(b.value))

\* sorted(categories): a stable insertion sort by __lt__
RECURSIVE sorted(_)
sorted(s) ==
    IF Len(s) = 0 THEN << >>
    ELSE LET rest == sorted(SubSeq(s, 1, Len(s) - 1))
             x    == s[Len(s)]
             \* x goes after every element that is not greater than it
             k    == Cardinality({i \in 1..Len(rest) : ~CategoryType_lt(x, rest[i])})
         IN  SubSeq(rest, 1, k) \o <<x>> \o SubSeq(rest, k + 1, Len(rest))

\* list(dict.fromkeys(xs)): the first occurrence of each element, in order
RECURSIVE DictFromKeys(_)
DictFromKeys(s) ==
    IF Len(s) = 0 THEN << >>
    ELSE LET front == DictFromKeys(SubSeq(s, 1, Len(s) - 1))
             x     == s[Len(s)]
         IN  IF \E i \in 1..Len(front) : front[i] = x THEN front
             ELSE Append(front, x)

\* an optional list argument: None, or a list
NoList == [given |-> FALSE, items |-> << >>]
SomeList(s) == [given |-> TRUE, items |-> s]
\* Python truthiness of an optional list
Truthy(l) == l.given /\ Len(l.items) > 0

\* class ImageSize(Enum): the URL prefix of each tier, as path chunks
ImageSize(name) ==
    IF name = "MAX" THEN <<"https://mdl.artvee.com/", "hdl/">>
    ELSE <<"https://mdl.artvee.com/", "sdl/">>

\* str.startswith on chunked strings
StartsWith(s, prefix) ==
    /\ Len(s) >= Len(prefix)
    /\ SubSeq(s, 1, Len(prefix)) = prefix

----------------------------------------------------------------------------
(* Text, as sequences of one-character strings *)

IsDigit(c) == c \in {"0", "1", "2", "3", "4", "5", "6", "7", "8", "9"}

DigitVal(c) ==
    CASE c = "0" -> 0 [] c = "1" -> 1 [] c = "2" -> 2 [] c = "3" -> 3
      [] c = "4" -> 4 [] c = "5" -> 5 [] c = "6" -> 6 [] c = "7" -> 7
      [] c = "8" -> 8 [] c = "9" -> 9

DigitChar(d) == <<"0", "1", "2", "3", "4", "5", "6", "7", "8", "9">>[d + 1]

\* the decimal text of a natural number, as the site prints it
RECURSIVE DigitsOf(_)
DigitsOf(n) ==
    IF n < 10 THEN <<DigitChar(n)>>
    ELSE Append(DigitsOf(n \div 10), DigitChar(n % 10))

AllDigits(t) == Len(t) > 0 /\ \A i \in 1..Len(t) : IsDigit(t[i])

\* int(text) on a text of decimal digits
RECURSIVE DecimalValue(_)
DecimalValue(t) ==
    IF Len(t) = 0 THEN 0
    ELSE 10 * DecimalValue(SubSeq(t, 1, Len(t) - 1)) + DigitVal(t[Len(t)])

IsSpace(c) == c \in {" ", "\n", "\t"}

\* str.strip()
RECURSIVE Strip(_)
Strip(t) ==
    IF Len(t) > 0 /\ IsSpace(t[1]) THEN Strip(Tail(t))
    ELSE IF Len(t) > 0 /\ IsSpace(t[Len(t)]) THEN Strip(SubSeq(t, 1, Len(t) - 1))
    ELSE t

\* the digits of an integer literal: decimal digits, single underscores
\* allowed between two of them
Grouped(t) ==
    /\ Len(t) > 0
    /\ \A i \in 1..Len(t) : IsDigit(t[i]) \/ t[i] = "_"
    /\ IsDigit(t[1]) /\ IsDigit(t[Len(t)])
    /\ \A i \in 1..(Len(t) - 1) : ~(t[i] = "_" /\ t[i + 1] = "_")

\* int(text): the value, or ValueError when the text is no integer literal.
\* Surrounding whitespace is dropped and one sign may lead
ParseInt(t) ==
    LET u      == Strip(t)
        signed == Len(u) > 0 /\ u[1] \in {"+", "-"}
        body   == IF signed THEN Tail(u) ELSE u
        mag    == DecimalValue(SelectSeq(body, IsDigit))
    IN  IF Grouped(body)
        THEN [ok |-> TRUE, val |-> IF signed /\ u[1] = "-" THEN 0 - mag ELSE mag]
        ELSE [ok |-> FALSE, val |-> 0]

EndsWith(s, suffix) ==
    /\ Len(s) >= Len(suffix)
    /\ SubSeq(s, Len(s) - Len(suffix) + 1, Len(s)) = suffix

W_of == <<"o", "f">>
W_items == <<"i", "t", "e", "m", "s">>

----------------------------------------------------------------------------
(* HTTP responses: session.get raises (exc) or answers a status and a body *)

Raised(body) == [exc |-> TRUE, status |-> 0, body |-> body]
Answer(status, body) == [exc |-> FALSE, status |-> status, body |-> body]

\* the statuses the site answers with during a run: success, a client error,
\* and a server error that outlasted the retries
Statuses == {HTTP_OK, 404, 503}

\* the statuses a resolver is probed with
ProbeStatuses == {HTTP_OK, 400, 403, 404, 500, 502, 503, 504}

\* a request did not succeed
Failed(resp) == resp.exc \/ resp.status # HTTP_OK

\* every way a GET can end: a transport exception, or one of the statuses
\* with one of the bodies (an error page has a body too)
Responses(statuses, bodies, empty) ==
    {Raised(empty)} \cup {Answer(s, b) : s \in statuses, b \in bodies}

----------------------------------------------------------------------------
(* Pagination resolver *)

\* max(pages) of a non-empty list
MaxOf_last(s) == s[Len(s)]
MaxOf(s) == CHOOSE m \in {s[i] : i \in 1..Len(s)} : \A j \in 1..Len(s) : s[j] <= m

\* the labels whose int() does not raise ValueError, converted, in order
RECURSIVE NumericLabels(_)
NumericLabels(labels) ==
    IF Len(labels) = 0 THEN << >>
    ELSE LET p == ParseInt(Head(labels))
         IN  (IF p.ok THEN <<p.val>> ELSE << >>) \o NumericLabels(Tail(labels))

\* ArtveeScraper._num_pages_for_page_url on the outcome of its GET
\* body: [pagination |-> BOOLEAN, labels |-> the texts of the a/span elements]
UrlPagesFromBody(body) ==
    LET pages == IF body.pagination THEN NumericLabels(body.labels) ELSE << >>
    IN  IF Len(pages) > 0 THEN MaxOf(pages) ELSE 1

\* a resolver by URL that gives up like the resolver by category
num_pages_for_page_url_zero(resp) ==
    IF resp.exc THEN 0
    ELSE IF resp.status = HTTP_OK THEN UrlPagesFromBody(resp.body)
    ELSE 0

num_pages_for_page_url(resp) ==
    IF resp.exc THEN 1
    ELSE IF resp.status = HTTP_OK THEN UrlPagesFromBody(resp.body)
    ELSE 1

\* re.search(r"of\s+(\d+)\s+items", text) on whitespace-separated tokens:
\* the positions where a token ending in "of" is followed by an all-digit
\* token and a token starting with "items"
ItemsMatches(toks) ==
    {i \in 1..(Len(toks) - 2) :
        /\ EndsWith(toks[i], W_of)
        /\ AllDigits(toks[i + 1])
        /\ StartsWith(toks[i + 2], W_items)}

\* Python integers have no width: int(text) of a long digit text is kept as
\* its decimal text without leading zeros
RECURSIVE Normal(_)
Normal(t) == IF Len(t) > 1 /\ Head(t) = "0" THEN Normal(Tail(t)) ELSE t

\* divmod(int(t), d) for a small divisor d, by long division
RECURSIVE LongDiv(_, _)
LongDiv(t, d) ==
    IF Len(t) = 0 THEN [q |-> << >>, r |-> 0]
    ELSE LET front == LongDiv(SubSeq(t, 1, Len(t) - 1), d)
             cur   == 10 * front.r + DigitVal(t[Len(t)])
         IN  [q |-> Append(front.q, DigitChar(cur \div d)), r |-> cur % d]
DivMod(t, d) == LET x == LongDiv(t, d) IN [q |-> Normal(x.q), r |-> x.r]

\* arithmetic on long integers goes 16 binary digits at a time
CHUNK == 16

\* int.bit_length() of a number below 10^5
SmallBitLength(v) == CHOOSE n \in 0..17 : v < 2 ^ n /\ (n = 0 \/ v >= 2 ^ (n - 1))

\* int(t).bit_length()
RECURSIVE BitLength(_)
BitLength(t) ==
    IF Len(Normal(t)) <= 5 THEN SmallBitLength(DecimalValue(t))
    ELSE CHUNK + BitLength(DivMod(t, 2 ^ CHUNK).q)

\* int(t) * m + carry for a small m, as text
RECURSIVE LongMul(_, _, _)
LongMul(t, m, carry) ==
    IF Len(t) = 0 THEN (IF carry = 0 THEN << >> ELSE DigitsOf(carry))
    ELSE LET cur == m * DigitVal(t[Len(t)]) + carry
         IN  Append(LongMul(SubSeq(t, 1, Len(t) - 1), m, cur \div 10),
                    DigitChar(cur % 10))

\* int(t) + 1, as text
AddOne(t) == Normal(LongMul(t, 1, 1))

\* int(t) << k
RECURSIVE LShift(_, _)
LShift(t, k) ==
    IF k <= CHUNK THEN Normal(LongMul(t, 2 ^ k, 0))
    ELSE LShift(Normal(LongMul(t, 2 ^ CHUNK, 0)), k - CHUNK)

\* int(t) >> k for k > 0, with what fell off: its highest binary digit (half)
\* and whether any digit below that is set (sticky)
RECURSIVE RShift(_, _)
RShift(t, k) ==
    IF k <= CHUNK
    THEN LET x == DivMod(t, 2 ^ k)
         IN  [q |-> x.q, half |-> x.r >= 2 ^ (k - 1), sticky |-> x.r % (2 ^ (k - 1)) # 0]
    ELSE LET x    == DivMod(t, 2 ^ CHUNK)
             rest == RShift(x.q, k - CHUNK)
         IN  [q |-> rest.q, half |-> rest.half, sticky |-> rest.sticky \/ x.r # 0]

Odd(t) == DivMod(t, 2).r = 1

\* the significand of a float: 53 binary digits
MANT_DIG == 53

\* math.ceil(total_items / _ITEMS_PER_PAGE) on the decimal text of
\* total_items.  The division is float division: the quotient is the exact
\* q + r/d rounded to MANT_DIG binary digits (ties to even), and math.ceil
\* is taken of that float.  With n the number of binary digits of q:
\*   n = 0            the float is r/d, below 1: ceil is 0 or 1
\*   0 < n <= 53      f = 53 - n digits are left for the fraction; the float
\*                    is q itself when r/d rounds to 0 at that precision
\*   n > 53           the lowest e = n - 53 digits of q are rounded away
CeilDiv(t, d) ==
    LET x    == DivMod(t, d)
        n    == BitLength(x.q)
        f    == MANT_DIG - n
        e    == n - MANT_DIG
        \* r/d is below half a unit of the last place, or exactly half of it
        \* next to an even significand (from 20 fraction digits on it never is)
        down == \/ x.r = 0
                \/ f < 20 /\ x.r * (2 ^ (f + 1)) < d
                \/ f < 20 /\ x.r * (2 ^ (f + 1)) = d /\ (f > 0 \/ ~Odd(x.q))
        high == RShift(x.q, e)
        up   == high.half /\ (high.sticky \/ x.r > 0 \/ Odd(high.q))
    IN  IF n = 0 THEN (IF x.r > 0 THEN <<"1">> ELSE <<"0">>)
        ELSE IF n <= MANT_DIG THEN (IF down THEN x.q ELSE AddOne(x.q))
        ELSE LShift(IF up THEN AddOne(high.q) ELSE high.q, e)

\* ArtveeScraper._num_pages_for_category on a 200: the page count as the
\* decimal text of the Python integer it returns
\* body: [tag |-> BOOLEAN, text |-> the tokens of the result-count text]
CategoryPagesText(body) ==
    IF ~body.tag THEN <<"0">>
    ELSE LET ms == ItemsMatches(body.text)
         IN  IF ms # {}
             THEN LET i == CHOOSE m \in ms : \A o \in ms : m <= o
                  IN  CeilDiv(body.text[i + 1], ITEMS_PER_PAGE)
             ELSE <<"0">>

\* the same page count as a number, for the counts a run iterates over
CategoryPagesFromBody(body) == DecimalValue(CategoryPagesText(body))

num_pages_for_category_normalized(resp) ==
    IF resp.exc THEN 1
    ELSE IF resp.status = HTTP_OK THEN CategoryPagesFromBody(resp.body)
    ELSE 1
num_pages_for_category(resp) ==
    IF resp.exc THEN 0
    ELSE IF resp.status = HTTP_OK THEN CategoryPagesFromBody(resp.body)
    ELSE 0

\* the pagination controls the site answers with
NoPagination == [pagination |-> FALSE, labels |-> << >>]
W_dots == <<".", ".", ".">>
W_next == <<">">>
PaginationBodies ==
    {NoPagination,
     [pagination |-> TRUE, labels |-> << >>],
     [pagination |-> TRUE, labels |-> <<W_dots, W_next>>]}
    \cup {[pagination |-> TRUE,
           labels |-> [i \in 1..m |-> DigitsOf(i)] \o <<W_next>>] : m \in 1..MaxPages}
    \cup {[pagination |-> TRUE,
           labels |-> <<DigitsOf(1), W_dots, DigitsOf(m)>>] : m \in 1..MaxPages}

UrlCountResponses == Responses(Statuses, PaginationBodies, NoPagination)

\* the texts of the elements of a pagination control, get_text() unstripped:
\* page numbers, a number wrapped in whitespace, the ellipsis and the next
\* marker, a number with a separator, and 0 and a signed number, which int()
\* accepts
LabelPool ==
    {<<"1">>, <<"2">>, <<"5">>, <<"\n", "3", " ">>, W_dots, W_next,
     <<"1", ",", "0">>, <<"0">>, <<"-", "1">>}
\* every control of up to MaxLabels elements, and the control 1 2 3 ... 5
LabelBodies ==
    {[pagination |-> TRUE, labels |-> l] :
        l \in UNION {[1..n -> LabelPool] : n \in 0..MaxLabels}}
    \cup {[pagination |-> TRUE,
            labels |-> <<DigitsOf(1), DigitsOf(2), DigitsOf(3), W_dots, DigitsOf(5)>>]}

\* the result-count texts the site answers with
NoCountTag == [tag |-> FALSE, text |-> << >>]
W_Showing == <<"S", "h", "o", "w", "i", "n", "g">>
W_range == <<"1", "-", "7", "0">>
ItemCounts == {n \in {0, 1, 69, 70, 71, 134, 140, 141, 210} : n <= ITEMS_PER_PAGE * MaxPages}
CountBodies ==
    {NoCountTag,
     [tag |-> TRUE, text |-> << >>],
     [tag |-> TRUE, text |-> <<W_Showing, W_of, <<"m", "a", "n", "y">>, W_items>>],
     [tag |-> TRUE, text |-> <<W_Showing, DigitsOf(70), W_items>>]}
    \cup {[tag |-> TRUE,
           text |-> <<W_Showing, W_range, W_of, DigitsOf(n), W_items>>] : n \in ItemCounts}

CategoryCountResponses == Responses(Statuses, CountBodies, NoCountTag)

\* result counts of a catalogue far larger than a run iterates over: around
\* 70 * 2^47 and 70 * 2^53, with leading zeros, and a count with a separator
BigTotals ==
    {<<"9", "8", "5", "1", "6", "2", "4", "1", "8", "4", "8", "7", "2", "8", "9", "1">>, <<"9", "8", "5", "1", "6", "2", "4", "1", "8", "4", "8", "7", "2", "9", "6", "0">>, <<"9", "8", "5", "1", "6", "2", "4", "1", "8", "4", "8", "7", "2", "9", "6", "1">>,
     <<"3", "1", "5", "2", "5", "1", "9", "7", "3", "9", "1", "5", "9", "3", "4", "7", "5", "5">>, <<"3", "1", "5", "2", "5", "1", "9", "7", "3", "9", "1", "5", "9", "3", "4", "8", "2", "5">>,
     <<"6", "3", "0", "5", "0", "3", "9", "4", "7", "8", "3", "1", "8", "6", "9", "5", "1", "0">>, <<"6", "3", "0", "5", "0", "3", "9", "4", "7", "8", "3", "1", "8", "6", "9", "6", "5", "1">>,
     <<"0", "0", "7", "1">>}
BigCountBodies ==
    {[tag |-> TRUE, text |-> <<W_Showing, W_range, W_of, t, W_items>>] : t \in BigTotals}
    \cup {[tag |-> TRUE,
            text |-> <<W_Showing, W_range, W_of, <<"1", ",", "3", "4", "0">>, W_items>>]}

----------------------------------------------------------------------------
(* Listing-page parser *)

\* the category label of URL mode: 'Unknown'
UnknownLabel == <<85, 110, 107, 110, 111, 119, 110>>

\* str.capitalize on code points: first letter upper case, the rest lower case
Capitalize(s) ==
    [i \in 1..Len(s) |->
        IF i = 1 THEN (IF s[i] >= 97 /\ s[i] <= 122 THEN s[i] - 32 ELSE s[i])
        ELSE (IF s[i] >= 65 /\ s[i] <= 90 THEN s[i] + 32 ELSE s[i])]

\* a field of an Artwork that was never assigned
Unset == <<"None">>

\* the artist of a block without artist tag: "Unknown"
UnknownArtist == <<"U", "n", "k", "n", "o", "w", "n">>

\* "." of the pattern: any character but a newline
Dots(t) == \A i \in 1..Len(t) : t[i] # "\n"

\* the last character of t that is no whitespace, 0 if there is none
LastInk(t) ==
    IF \A i \in 1..Len(t) : IsSpace(t[i]) THEN 0
    ELSE CHOOSE c \in 1..Len(t) :
             ~IsSpace(t[c]) /\ \A j \in (c + 1)..Len(t) : IsSpace(t[j])

\* the first character of t after position g that is no whitespace, 0 if
\* there is none
NextInk(t, g) ==
    IF \A i \in (g + 1)..Len(t) : IsSpace(t[i]) THEN 0
    ELSE CHOOSE p \in (g + 1)..Len(t) :
             ~IsSpace(t[p]) /\ \A j \in (g + 1)..(p - 1) : IsSpace(t[j])

\* the lengths g of a first group with which ^(.+)\s*\((.+)\)\s*$ matches t,
\* lazy or greedy alike: t[1..g] without newline, then whitespace, "(", a
\* second group of at least one character without newline, then ")" as the
\* last character before trailing whitespace
Splits(t) ==
    {g \in 1..Len(t) :
        LET p == NextInk(t, g)
            c == LastInk(t)
        IN  /\ Dots(SubSeq(t, 1, g))
            /\ p > 0 /\ t[p] = "("
            /\ c >= p + 2 /\ t[c] = ")"
            /\ Dots(SubSeq(t, p + 1, c - 1))}

\* the first group the engine settles on: (.+?) takes the shortest
Lazy(gs) == CHOOSE g \in gs : \A o \in gs : g <= o

\* ArtveeScraper._PATTERN.match(t): whether it matches, group(1), group(2)
PATTERN_match(t) ==
    LET gs == Splits(t)
    IN  IF gs = {} THEN [ok |-> FALSE, g1 |-> << >>, g2 |-> << >>]
        ELSE LET g == Lazy(gs)
             IN  [ok |-> TRUE,
                  g1 |-> SubSeq(t, 1, g),
                  g2 |-> SubSeq(t, NextInk(t, g) + 1, LastInk(t) - 1)]

\* ArtveeScraper._parse_metadata_html on one metadata block
\* block: [h3 |-> the title element exists, a |-> it holds a link,
\*         href |-> the link's href, title |-> the stripped text of the title
\*         element, tag |-> the artist tag exists, artist |-> its stripped
\*         text, exc |-> a statement of the try block raises]
\* returns the Artwork, or None (ok = FALSE)
parse_metadata_html(block, category) ==
    LET blank == [url |-> block.href, title |-> block.title, category |-> category,
                  date |-> Unset, artist |-> Unset, origin |-> Unset, image |-> FALSE]
        tm    == PATTERN_match(block.title)
        am    == PATTERN_match(block.artist)
        titled == IF tm.ok
                  THEN [blank EXCEPT !.title = Strip(tm.g1), !.date = Strip(tm.g2)]
                  ELSE blank
    IN  IF ~block.h3 \/ ~block.a \/ block.exc THEN [ok |-> FALSE, artwork |-> blank]
        ELSE [ok |-> TRUE,
              artwork |->
                  IF ~block.tag THEN [titled EXCEPT !.artist = UnknownArtist]
                  ELSE IF am.ok
                       THEN [titled EXCEPT !.artist = Strip(am.g1), !.origin = Strip(am.g2)]
                  ELSE [titled EXCEPT !.artist = block.artist]]

\* ArtveeScraper._scrape_artwork_data on the outcome of its GET
\* body: the sequence of metadata blocks of the page
RECURSIVE ParsedBlocks(_, _)
\* a loop that ends at the first block that yields no record
ParsedBlocks_abort(blocks, category) ==
    LET none == {i \in 1..Len(blocks) : ~parse_metadata_html(blocks[i], category).ok}
        n    == IF none = {} THEN Len(blocks)
                ELSE (CHOOSE i \in none : \A j \in none : i <= j) - 1
    IN  [i \in 1..n |-> parse_metadata_html(blocks[i], category).artwork]

ParsedBlocks(blocks, category) ==
    IF Len(blocks) = 0 THEN << >>
    ELSE LET r == parse_metadata_html(Head(blocks), category)
         IN  (IF r.ok THEN <<r.artwork>> ELSE << >>)
             \o ParsedBlocks(Tail(blocks), category)

\* a parser that reads the body of every answer, whatever its status
scrape_artwork_data_anystatus(resp, category) ==
    IF resp.exc THEN << >> ELSE ParsedBlocks(resp.body, category)

scrape_artwork_data(resp, category) ==
    IF resp.exc THEN << >>
    ELSE IF resp.status = HTTP_OK THEN ParsedBlocks(resp.body, category)
    ELSE << >>

\* the shapes of a metadata block: well formed, no title element, no link,
\* and one whose parsing raises
BlockShapes ==
    {<<TRUE, TRUE, FALSE>>, <<FALSE, FALSE, FALSE>>, <<TRUE, FALSE, FALSE>>,
     <<TRUE, TRUE, TRUE>>}

\* a metadata block of the given shape; the detail-page URL of a block is its
\* position on the page
Block(shape, i) ==
    [h3 |-> shape[1], a |-> shape[2], exc |-> shape[3], href |-> i,
     title |-> <<"T">>, tag |-> FALSE, artist |-> << >>]

\* the listing pages of up to n blocks
Listings(n) ==
    UNION {{[i \in 1..k |-> Block(f[i], i)] : f \in [1..k -> BlockShapes]} : k \in 0..n}

\* the listing pages the site answers with during a run
ListingBodies == Listings(MaxRecords)

ListingResponses == Responses(Statuses, ListingBodies, << >>)

----------------------------------------------------------------------------
(* Detail-page resolver *)

\* no link: None, or an empty href
NoLink == << >>

\* the first href, in document order, that starts with the tier's prefix
RECURSIVE FirstWithPrefix(_, _)
\* the first href at all, whatever its tier
FirstWithPrefix_any(links, prefix) ==
    LET have == {i \in 1..Len(links) : links[i] # NoLink}
    IN  IF have = {} THEN NoLink
        ELSE links[CHOOSE i \in have : \A j \in have : i <= j]

FirstWithPrefix(links, prefix) ==
    IF Len(links) = 0 THEN NoLink
    ELSE IF Head(links) # NoLink /\ StartsWith(Head(links), prefix) THEN Head(links)
    ELSE FirstWithPrefix(Tail(links), prefix)

\* ArtveeScraper._image_link_from on the outcome of its GET
\* body: the href values of the download anchors, in document order
image_link_from(resp, image_size) ==
    IF resp.exc THEN NoLink
    ELSE IF resp.status = HTTP_OK THEN FirstWithPrefix(resp.body, ImageSize(image_size))
    ELSE NoLink

\* the hrefs of a detail page: one per tier, one elsewhere, one missing
Hrefs ==
    {ImageSize("MAX") \o <<"a.jpg">>, ImageSize("STANDARD") \o <<"a.jpg">>,
     <<"https://artvee.com/", "a.jpg">>, NoLink}

DetailBodies == UNION {[1..n -> Hrefs] : n \in 0..MaxLinks}

DetailResponses == Responses(Statuses, DetailBodies, << >>)

----------------------------------------------------------------------------
(* Configuration: runner.main and ArtveeScraper.__init__ *)

\* the categories a caller asks for, drawn from two whose declaration order
\* (religion, mythology) is not their sorted order
RequestPool == {"religion", "mythology"}
\* --category, action="append": strings, as often as the option was given
StrLists == UNION {[1..n -> {Str(v) : v \in RequestPool}] : n \in 0..MaxRequested}
\* categories: List[CategoryType], each member once
MemberLists ==
    {l \in UNION {[1..n -> {Member(v) : v \in RequestPool}] : n \in 1..MaxRequested} :
        \A i, j \in 1..Len(l) : l[i] = l[j] => i = j}

\* explicit page URLs, as chunks; every second one ends in a slash
PageUrl(i) ==
    <<"https://artvee.com/collection/", DigitsOf(i)>>
        \o (IF i % 2 = 0 THEN <<"/">> ELSE << >>)
UrlLists == {[i \in 1..n |-> PageUrl(i)] : n \in 0..MaxUrls}

\* what the command line passes (runner.parse_cli_args): argparse leaves an
\* option that was never given at None and a given one non-empty, and a
\* command line without category and without URL is rejected
MainArgs ==
    {a \in [entry : {"main"},
            categories : {NoList} \cup {SomeList(l) : l \in StrLists},
            page_urls : {NoList} \cup {SomeList(l) : l \in UrlLists},
            worker_threads : 1..MaxWorkers,
            image_size : {"MAX", "STANDARD"}] :
        /\ a.categories.given => Len(a.categories.items) > 0
        /\ a.page_urls.given => Len(a.page_urls.items) > 0
        /\ Truthy(a.categories) \/ Truthy(a.page_urls)}

\* what a direct construction of ArtveeScraper passes: no category list at
\* all or a list of members in the caller's order, with or without page
\* URLs, and the default image size
LibraryArgs ==
    {a \in [entry : {"library"},
            categories : {NoList} \cup {SomeList(l) : l \in MemberLists},
            page_urls : {NoList} \cup {SomeList(l) : l \in UrlLists},
            worker_threads : 1..MaxWorkers,
            image_size : {"STANDARD"}] :
        a.page_urls.given => Len(a.page_urls.items) > 0}

ArgSets == MainArgs \cup LibraryArgs

\* runner.main: the categories argument it hands to the constructor
main_categories(a) ==
    LET deduped == IF Truthy(a.categories)
                   THEN SomeList(DictFromKeys(a.categories.items)) ELSE NoList
        kept    == IF Truthy(a.page_urls) THEN NoList ELSE deduped
    IN  IF Truthy(kept) THEN SomeList(sorted(kept.items)) ELSE NoList

\* ArtveeScraper.__init__: self.categories
init_categories(categories) ==
    IF ~categories.given THEN CategoryType ELSE categories.items

----------------------------------------------------------------------------
(* State *)

VARIABLES
    scraper,        \* the fields __init__ set (fixed for the run)
    pc,             \* where the main thread is
    mode,           \* the branch start() took: "url" or "category"
    src_idx,        \* position of the outer for loop in its list
    page_count,     \* local page_count of start()
    page,           \* local page of start()
    artwork_list,   \* local artwork_list of start()
    sub_idx,        \* next element of artwork_list that map() submits
    wait_idx,       \* next result the result iterator yields
    tasks,          \* the futures given to the pool, in submission order
    visited,        \* the sources whose page count was requested, in order
    count_ok,       \* whether the page-count request of the current source answered 200
    fetched,        \* the listing requests made for the current source
    raised,         \* the exception that left start(), if any
    pool_shutdown,  \* ThreadPoolExecutor._shutdown
    session_closed, \* session.close() was called
    probe           \* a resolver applied to one response, outside a run

vars == <<scraper, pc, mode, src_idx, page_count, page, artwork_list, sub_idx,
          wait_idx, tasks, visited, count_ok, fetched, raised, pool_shutdown,
          session_closed, probe>>

\* ArtveeScraper.__init__: the fields of the scraper that main (or a library
\* caller) constructs from its arguments
NewScraper(a) ==
    [entry |-> a.entry,
     categories |-> init_categories(IF a.entry = "main" THEN main_categories(a)
                                    ELSE a.categories),
     page_urls |-> a.page_urls,
     image_size |-> a.image_size,
     max_workers |-> a.worker_threads]

self_categories == scraper.categories
self_page_urls == scraper.page_urls
self_image_size == scraper.image_size
max_workers == scraper.max_workers

\* if self.page_urls: ... else: ...
UrlMode_inverted(page_urls) == ~Truthy(page_urls)
UrlMode(page_urls) == Truthy(page_urls)

\* the list the outer for loop of the taken branch iterates
Sources == IF mode = "url" THEN self_page_urls.items ELSE self_categories

\* range(1, page_count + 1) still holds the page
InRange_dowhile(p, count) == p = 1 \/ (1 <= p /\ p <= count)
InRange(p, count) == 1 <= p /\ p <= count

\* str.rstrip('/') on a chunked URL
RECURSIVE RStrip(_)
RStrip(u) ==
    IF Len(u) > 0 /\ u[Len(u)] = "/" THEN RStrip(SubSeq(u, 1, Len(u) - 1)) ELSE u

\* the listing URL of URL mode: base/ for page 1, base/page/n/ after it
UrlPageUrl(base, p) ==
    IF p = 1 THEN [base |-> RStrip(base), suffix |-> "/", page |-> 1]
    ELSE [base |-> RStrip(base), suffix |-> "/page/{page}/", page |-> p]

\* the listing URL of category mode
CategoryPageUrl(category, p) ==
    [base |-> <<"https://www.artvee.com/c/", category.value>>,
     suffix |-> "/page/{page}/?per_page=70", page |-> p]

\* a listing request in the history of the current source: its URL, and
\* whether the GET answered 200
Requested(page_url, resp) ==
    [base |-> page_url.base, suffix |-> page_url.suffix, page |-> page_url.page,
     ok |-> ~resp.exc /\ resp.status = HTTP_OK]

\* the future map() creates for one artwork of the current page
NewTask(artwork) ==
    [src |-> src_idx, page |-> page, artwork |-> artwork, st |-> "pending",
     link |-> NoLink, img |-> 0, wout |-> "unset", result |-> "unset"]

Unfinished(t) == t.st \in {"pending", "link", "image", "write"}
Running(t) == t.st \in {"link", "image", "write"}

\* the positions in tasks of the futures of the current map() call
Fs == {i \in 1..Len(tasks) : tasks[i].src = src_idx /\ tasks[i].page = page}

\* the k-th future of the current map() call
FsAt(k) == CHOOSE i \in Fs : Cardinality({j \in Fs : j < i}) = k - 1

\* Future.cancel(): only a future that has not started is cancelled
CancelFuture_kill(t) == IF Unfinished(t) THEN [t EXCEPT !.st = "cancelled"] ELSE t
CancelFuture(t) == IF t.st = "pending" THEN [t EXCEPT !.st = "cancelled"] ELSE t

\* the finally clause of map()'s result iterator: cancel what is left of fs
CancelFs(ts) == [i \in 1..Len(ts) |-> IF i \in Fs THEN CancelFuture(ts[i]) ELSE ts[i]]

\* no resolver was probed
NoProbe == [fn |-> "none"]

\* the state of a scraper that was just constructed
Fresh ==
    /\ pc = "init"
    /\ mode = "unset"
    /\ src_idx = 0
    /\ page_count = 0
    /\ page = 0
    /\ artwork_list = << >>
    /\ sub_idx = 0
    /\ wait_idx = 0
    /\ tasks = << >>
    /\ visited = << >>
    /\ count_ok = TRUE
    /\ fetched = << >>
    /\ raised = "none"
    /\ pool_shutdown = FALSE
    /\ session_closed = FALSE
    /\ probe = NoProbe

Init ==
    /\ scraper \in {NewScraper(a) : a \in ArgSets}
    /\ Fresh

----------------------------------------------------------------------------
(* The orchestrator: ArtveeScraper.start on the main thread *)

\* with scraper as s: s.start() -- the mode test of start()
Start ==
    /\ pc = "init"
    /\ mode' = IF UrlMode(self_page_urls) THEN "url" ELSE "category"
    /\ src_idx' = 1
    /\ pc' = "source"
    /\ UNCHANGED <<probe, scraper, page_count, page, artwork_list, sub_idx, wait_idx,
                   tasks, visited, count_ok, fetched, raised, pool_shutdown, session_closed>>

\* the outcome of a page-count request: whether its GET answered 200, and
\* what the resolver returned
Resolved(resp, pages) == [ok |-> ~resp.exc /\ resp.status = HTTP_OK, pages |-> pages]

\* what the two resolvers can return during a run
UrlPageCounts ==
    {Resolved(resp, num_pages_for_page_url(resp)) : resp \in UrlCountResponses}
CategoryPageCounts ==
    {Resolved(resp, num_pages_for_category(resp)) : resp \in CategoryCountResponses}

\* for base_page_url in self.page_urls: page_count = _num_pages_for_page_url(...)
PageCountUrl ==
    /\ pc = "source"
    /\ mode = "url"
    /\ src_idx <= Len(Sources)
    /\ \E r \in UrlPageCounts :
           /\ page_count' = r.pages
           /\ count_ok' = r.ok
    /\ visited' = Append(visited, [kind |-> "url", idx |-> src_idx])
    /\ fetched' = << >>
    /\ page' = 1
    /\ pc' = "page"
    /\ UNCHANGED <<probe, scraper, mode, src_idx, artwork_list, sub_idx, wait_idx, tasks,
                   raised, pool_shutdown, session_closed>>

\* for category in self.categories: page_count = _num_pages_for_category(...)
PageCountCategory ==
    /\ pc = "source"
    /\ mode = "category"
    /\ src_idx <= Len(Sources)
    /\ \E r \in CategoryPageCounts :
           /\ page_count' = r.pages
           /\ count_ok' = r.ok
    /\ visited' = Append(visited, [kind |-> "category", idx |-> src_idx])
    /\ fetched' = << >>
    /\ page' = 1
    /\ pc' = "page"
    /\ UNCHANGED <<probe, scraper, mode, src_idx, artwork_list, sub_idx, wait_idx, tasks,
                   raised, pool_shutdown, session_closed>>

\* the outer for loop is exhausted: start() returns
Return ==
    /\ pc = "source"
    /\ src_idx > Len(Sources)
    /\ pc' = "exit"
    /\ UNCHANGED <<probe, scraper, mode, src_idx, page_count, page, artwork_list, sub_idx,
                   wait_idx, tasks, visited, count_ok, fetched, raised, pool_shutdown,
                   session_closed>>

\* URL mode, one page: build page_url and call _scrape_artwork_data
ListingUrl ==
    /\ pc = "page"
    /\ mode = "url"
    /\ InRange(page, page_count)
    /\ \E resp \in ListingResponses :
           /\ artwork_list' = scrape_artwork_data(resp, UnknownLabel)
           /\ fetched' = Append(fetched, Requested(UrlPageUrl(Sources[src_idx], page), resp))
    /\ sub_idx' = 1
    /\ pc' = "submit"
    /\ UNCHANGED <<probe, scraper, mode, src_idx, page_count, page, wait_idx, tasks,
                   visited, count_ok, raised, pool_shutdown, session_closed>>

\* category mode, one page: build page_url and call _scrape_artwork_data.
\* The argument category.value.capitalize() is evaluated before the call and
\* outside every try block: on a category that has no attribute value the
\* AttributeError leaves start() and nothing is fetched
ListingCategory ==
    /\ pc = "page"
    /\ mode = "category"
    /\ InRange(page, page_count)
    /\ IF HasValue(Sources[src_idx])
       THEN /\ \E resp \in ListingResponses :
                   /\ artwork_list' =
                          scrape_artwork_data(resp,
                              Capitalize(CodePoints(Sources[src_idx].value)))
                   /\ fetched' = Append(fetched,
                          Requested(CategoryPageUrl(Sources[src_idx], page), resp))
            /\ sub_idx' = 1
            /\ pc' = "submit"
            /\ UNCHANGED raised
       ELSE /\ raised' = "AttributeError"
            /\ pc' = "exit"
            /\ UNCHANGED <<artwork_list, fetched, sub_idx>>
    /\ UNCHANGED <<probe, scraper, mode, src_idx, page_count, page, wait_idx, tasks,
                   visited, count_ok, pool_shutdown, session_closed>>

\* the page loop is exhausted: on to the next source
NextSource ==
    /\ pc = "page"
    /\ ~InRange(page, page_count)
    /\ src_idx' = src_idx + 1
    /\ pc' = "source"
    /\ UNCHANGED <<probe, scraper, mode, page_count, page, artwork_list, sub_idx, wait_idx,
                   tasks, visited, count_ok, fetched, raised, pool_shutdown, session_closed>>

\* self.workers.map: fs = [self.submit(fn, a) for a in artwork_list], one
\* submit at a time
Submit ==
    /\ pc = "submit"
    /\ sub_idx <= Len(artwork_list)
    /\ tasks' = Append(tasks, NewTask(artwork_list[sub_idx]))
    /\ sub_idx' = sub_idx + 1
    /\ UNCHANGED <<probe, scraper, pc, mode, src_idx, page_count, page, artwork_list,
                   wait_idx, visited, count_ok, fetched, raised, pool_shutdown,
                   session_closed>>

\* map() returns its result iterator and the for loop over results begins
MapReturns ==
    /\ pc = "submit"
    /\ sub_idx > Len(artwork_list)
    /\ wait_idx' = 1
    /\ pc' = "wait"
    /\ UNCHANGED <<probe, scraper, mode, src_idx, page_count, page, artwork_list, sub_idx,
                   tasks, visited, count_ok, fetched, raised, pool_shutdown, session_closed>>

\* Future.result() returns or raises once the future is finished
ResultReady_nowait(t) == TRUE
ResultReady(t) == t.st = "done"

\* for _ in results: the iterator yields the next future's result, in
\* submission order; a result that is an exception is raised out of start()
\* after the iterator's finally clause cancelled the rest of fs
NextResult ==
    /\ pc = "wait"
    /\ wait_idx <= Cardinality(Fs)
    /\ ResultReady(tasks[FsAt(wait_idx)])
    /\ IF tasks[FsAt(wait_idx)].result = "raised"
       THEN /\ raised' = "WorkerException"
            /\ tasks' = CancelFs(tasks)
            /\ pc' = "exit"
            /\ UNCHANGED wait_idx
       ELSE /\ wait_idx' = wait_idx + 1
            /\ UNCHANGED <<raised, tasks, pc>>
    /\ UNCHANGED <<probe, scraper, mode, src_idx, page_count, page, artwork_list, sub_idx,
                   visited, count_ok, fetched, pool_shutdown, session_closed>>

\* the result iterator dropped every future whose result it yielded: they are
\* garbage once it is exhausted; a future that is not finished stays with the
\* pool
Kept(ts) == SelectSeq(ts, Unfinished)

\* the result iterator is exhausted: the page is complete, on to the next page
PageDone ==
    /\ pc = "wait"
    /\ wait_idx > Cardinality(Fs)
    /\ tasks' = Kept(tasks)
    /\ page' = page + 1
    /\ pc' = "page"
    /\ UNCHANGED <<probe, scraper, mode, src_idx, page_count, artwork_list, sub_idx,
                   wait_idx, visited, count_ok, fetched, raised, pool_shutdown,
                   session_closed>>

----------------------------------------------------------------------------
(* Exceptions out of start(), and the exit of the with block *)

\* where the main thread is while it executes the loops of start()
InStart == pc \in {"source", "page", "submit", "wait"}

\* KeyboardInterrupt is raised in the main thread somewhere in start().  No
\* handler of start() or of the resolvers catches it (they catch Exception).
\* Raised while the main thread is inside the result iterator, the iterator's
\* finally clause cancels the futures that have not started (cancel = TRUE);
\* raised between two results, or while map() still submits, the futures stay
\* queued (cancel = FALSE)
Interrupt ==
    /\ InStart
    /\ raised' = "KeyboardInterrupt"
    /\ \E cancel \in BOOLEAN :
           tasks' = IF cancel /\ pc = "wait" THEN CancelFs(tasks) ELSE tasks
    /\ pc' = "exit"
    /\ UNCHANGED <<probe, scraper, mode, src_idx, page_count, page, artwork_list, sub_idx,
                   wait_idx, visited, count_ok, fetched, pool_shutdown, session_closed>>

\* __exit__ -> shutdown(wait=True) -> self.workers.shutdown: no new futures
ShutdownPool ==
    /\ pc = "exit"
    /\ pool_shutdown' = TRUE
    /\ pc' = "join"
    /\ UNCHANGED <<probe, scraper, mode, src_idx, page_count, page, artwork_list, sub_idx,
                   wait_idx, tasks, visited, count_ok, fetched, raised, session_closed>>

\* shutdown(wait=True) joins the worker threads, which leave once the queue
\* holds no future that is still to run
Joined_nowait(ts) == TRUE
\* a join that leaves the queued futures to the threads
Joined_running(ts) == \A i \in 1..Len(ts) : ~Running(ts[i])
Joined(ts) == \A i \in 1..Len(ts) : ~Unfinished(ts[i])

JoinWorkers ==
    /\ pc = "join"
    /\ Joined(tasks)
    /\ pc' = "close"
    /\ UNCHANGED <<probe, scraper, mode, src_idx, page_count, page, artwork_list, sub_idx,
                   wait_idx, tasks, visited, count_ok, fetched, raised, pool_shutdown,
                   session_closed>>

\* self.session.close(), then control leaves the with block
CloseSession ==
    /\ pc = "close"
    /\ session_closed' = TRUE
    /\ pc' = "left"
    /\ UNCHANGED <<probe, scraper, mode, src_idx, page_count, page, artwork_list, sub_idx,
                   wait_idx, tasks, visited, count_ok, fetched, raised, pool_shutdown>>

----------------------------------------------------------------------------
(* The worker pool: ArtveeScraper._worker_task on the pool's threads *)

\* what the except clause of _worker_task returns
worker_task_except == "False"

\* a task ends with a return value; its locals img_link and img_resp are gone,
\* the artwork keeps the bytes that were attached
Finish(t, result) ==
    [t EXCEPT !.st = "done", !.result = result, !.link = NoLink, !.img = 0]

\* a pool that starts a thread for every queued future
CanStart_unbounded(i) ==
    /\ tasks[i].st = "pending"
    /\ \A j \in 1..(i - 1) : tasks[j].st # "pending"

\* a pool thread takes the oldest queued future, skipping cancelled ones;
\* the pool never runs more than max_workers threads
CanStart(i) ==
    /\ tasks[i].st = "pending"
    /\ \A j \in 1..(i - 1) : tasks[j].st # "pending"
    /\ Cardinality({j \in 1..Len(tasks) : Running(tasks[j])}) < max_workers

StartTask ==
    /\ \E i \in 1..Len(tasks) :
           /\ CanStart(i)
           /\ tasks' = [tasks EXCEPT ![i].st = "link"]
    /\ UNCHANGED <<probe, scraper, pc, mode, src_idx, page_count, page, artwork_list,
                   sub_idx, wait_idx, visited, count_ok, fetched, raised, pool_shutdown,
                   session_closed>>

\* img_link = self._image_link_from(artwork.url); if img_link: ... else: ...
AfterLink_raise(t, img_link) ==
    IF img_link # NoLink THEN [t EXCEPT !.st = "image", !.link = img_link]
    ELSE Finish(t, "raised")
AfterLink(t, img_link) ==
    IF img_link # NoLink THEN [t EXCEPT !.st = "image", !.link = img_link]
    ELSE Finish(t, "False")

ResolveLink ==
    /\ \E i \in 1..Len(tasks) :
           /\ tasks[i].st = "link"
           /\ \E img_link \in {image_link_from(resp, self_image_size) :
                                    resp \in DetailResponses} :
                  tasks' = [tasks EXCEPT ![i] = AfterLink(@, img_link)]
    /\ UNCHANGED <<probe, scraper, pc, mode, src_idx, page_count, page, artwork_list,
                   sub_idx, wait_idx, visited, count_ok, fetched, raised, pool_shutdown,
                   session_closed>>

\* a worker that hands the record on whatever the status of the image fetch
AfterImage_anystatus(t, resp) ==
    IF resp.exc THEN Finish(t, worker_task_except)
    ELSE [t EXCEPT !.st = "write", !.img = resp.status,
                   !.artwork.image = (resp.status = HTTP_OK)]

\* with self.session.get(img_link, ...) as img_resp: a 200 attaches the bytes
AfterImage(t, resp) ==
    IF resp.exc THEN Finish(t, worker_task_except)
    ELSE IF resp.status = HTTP_OK
         THEN [t EXCEPT !.st = "write", !.img = resp.status, !.artwork.image = TRUE]
    ELSE Finish(t, "False")

ImageResponses == Responses(Statuses, {"bytes"}, "")

FetchImage ==
    /\ \E i \in 1..Len(tasks) :
           /\ tasks[i].st = "image"
           /\ \E resp \in ImageResponses :
                  tasks' = [tasks EXCEPT ![i] = AfterImage(@, resp)]
    /\ UNCHANGED <<probe, scraper, pc, mode, src_idx, page_count, page, artwork_list,
                   sub_idx, wait_idx, visited, count_ok, fetched, raised, pool_shutdown,
                   session_closed>>

\* return self.writer.write(artwork): the writer answers True or False, or
\* raises, which the except clause turns into its return value
WriterOutcomes == {"True", "False", "raise"}

AfterWrite_ignored(t, w) == Finish([t EXCEPT !.wout = w], "True")
AfterWrite(t, w) ==
    IF w = "raise" THEN Finish([t EXCEPT !.wout = w], worker_task_except)
    ELSE Finish([t EXCEPT !.wout = w], w)

Write ==
    /\ \E i \in 1..Len(tasks) :
           /\ tasks[i].st = "write"
           /\ \E w \in WriterOutcomes :
                  tasks' = [tasks EXCEPT ![i] = AfterWrite(@, w)]
    /\ UNCHANGED <<probe, scraper, pc, mode, src_idx, page_count, page, artwork_list,
                   sub_idx, wait_idx, visited, count_ok, fetched, raised, pool_shutdown,
                   session_closed>>

Worker ==
    \/ StartTask
    \/ ResolveLink
    \/ FetchImage
    \/ Write

----------------------------------------------------------------------------
(* Specifications *)

Orchestrator ==
    \/ Start
    \/ PageCountUrl
    \/ PageCountCategory
    \/ Return
    \/ ListingUrl
    \/ ListingCategory
    \/ NextSource
    \/ Submit
    \/ MapReturns
    \/ NextResult
    \/ PageDone

Exit ==
    \/ ShutdownPool
    \/ JoinWorkers
    \/ CloseSession

Next ==
    \/ Orchestrator
    \/ Exit
    \/ Worker
    \/ Interrupt

Spec == Init /\ [][Next]_vars

\* a run that no KeyboardInterrupt cuts short.
\* The main thread and the pool's threads are scheduled by the operating
\* system and every network call has a timeout, so a step that can be taken
\* is eventually taken
NextLive ==
    \/ Orchestrator
    \/ Exit
    \/ Worker

LiveSpec == Init /\ [][NextLive]_vars /\ WF_vars(NextLive)

----------------------------------------------------------------------------
(* The page-count resolvers on their own: each is applied to every outcome  *)
(* of its GET, whatever the body of an error page looks like               *)

ProbeUrlCountResponses ==
    Responses(ProbeStatuses, PaginationBodies \cup LabelBodies, NoPagination)
ProbeCategoryCountResponses == Responses(ProbeStatuses, CountBodies, NoCountTag)

RunUnchanged ==
    UNCHANGED <<scraper, pc, mode, src_idx, page_count, page, artwork_list,
                sub_idx, wait_idx, tasks, visited, count_ok, fetched, raised,
                pool_shutdown, session_closed>>

ProbeUrlCount ==
    /\ probe = NoProbe
    /\ \E resp \in ProbeUrlCountResponses :
           probe' = [fn |-> "_num_pages_for_page_url", resp |-> resp,
                     pages |-> num_pages_for_page_url(resp)]
    /\ RunUnchanged

ProbeCategoryCount ==
    /\ probe = NoProbe
    /\ \E resp \in ProbeCategoryCountResponses :
           probe' = [fn |-> "_num_pages_for_category", resp |-> resp,
                     pages |-> num_pages_for_category(resp)]
    /\ RunUnchanged

\* the 200 branch of _num_pages_for_category on a result-count text
ProbeResultCount ==
    /\ probe = NoProbe
    /\ \E body \in CountBodies \cup BigCountBodies :
           probe' = [fn |-> "result_count", body |-> body,
                     pages |-> CategoryPagesText(body)]
    /\ RunUnchanged

ProbeInit ==
    /\ Init
    /\ scraper.entry = "library"
    /\ ~Truthy(scraper.page_urls)
    /\ scraper.categories = CategoryType

ProbeNext ==
    \/ ProbeUrlCount
    \/ ProbeCategoryCount
    \/ ProbeResultCount

ResolverSpec == ProbeInit /\ [][ProbeNext]_vars

\* ---------------------------------------------------------------------------
\* The parsers of listing and detail pages, each applied once to a page the
\* site may answer with
\* ---------------------------------------------------------------------------

\* listing pages of up to MaxBlocks metadata blocks
ProbeListingResponses == Responses(Statuses, Listings(MaxBlocks), << >>)

ProbeListing ==
    /\ probe = NoProbe
    /\ \E resp \in ProbeListingResponses :
           probe' = [fn |-> "_scrape_artwork_data", resp |-> resp,
                     records |-> scrape_artwork_data(resp, UnknownLabel)]
    /\ RunUnchanged

\* the hrefs of a probed detail page: two files per tier, one elsewhere, the
\* host of the tiers alone, and an anchor without href
ProbeHrefs ==
    Hrefs \cup {ImageSize("MAX") \o <<"b.jpg">>, ImageSize("STANDARD") \o <<"b.jpg">>,
                <<"https://mdl.artvee.com/">>}

ProbeDetailResponses ==
    Responses(Statuses, UNION {[1..n -> ProbeHrefs] : n \in 0..MaxAnchors}, << >>)

ProbeImageLink ==
    /\ probe = NoProbe
    /\ \E resp \in ProbeDetailResponses, size \in {"MAX", "STANDARD"} :
           probe' = [fn |-> "_image_link_from", resp |-> resp, image_size |-> size,
                     link |-> image_link_from(resp, size)]
    /\ RunUnchanged

\* the characters of a probed text: a letter, the parentheses, a blank and a
\* newline
Alphabet == {"A", "(", ")", " ", "\n"}

\* what get_text(strip=True) can return: texts of up to MaxText characters
\* without whitespace at either end
Texts == {t \in UNION {[1..n -> Alphabet] : n \in 0..MaxText} : Strip(t) = t}

\* _parse_metadata_html on a block with the given title text and no artist tag
ProbeTitle ==
    /\ probe = NoProbe
    /\ \E t \in Texts :
           LET block == [Block(<<TRUE, TRUE, FALSE>>, 1) EXCEPT !.title = t]
           IN  probe' = [fn |-> "_parse_metadata_html", part |-> "title", text |-> t,
                         r |-> parse_metadata_html(block, UnknownLabel)]
    /\ RunUnchanged

\* _parse_metadata_html on a block with an artist tag holding the given text
ProbeArtist ==
    /\ probe = NoProbe
    /\ \E t \in Texts :
           LET block == [Block(<<TRUE, TRUE, FALSE>>, 1) EXCEPT !.tag = TRUE, !.artist = t]
           IN  probe' = [fn |-> "_parse_metadata_html", part |-> "artist", text |-> t,
                         r |-> parse_metadata_html(block, UnknownLabel)]
    /\ RunUnchanged

ParserNext ==
    \/ ProbeListing
    \/ ProbeImageLink
    \/ ProbeTitle
    \/ ProbeArtist

ParserSpec == ProbeInit /\ [][ParserNext]_vars

----------------------------------------------------------------------------
(* Properties *)

TaskIds == 1..Len(tasks)

\* the link of a task was resolved and its image fetch answered 200: the one
\* path on which the bytes are attached to the artwork
LinkAndImageOk(t) == t.artwork.image

\* the bytes are attached only behind a resolved link and a 200
AttachedBehindFetch(t) ==
    /\ t.st \in {"pending", "link", "image", "cancelled"} => ~t.artwork.image
    /\ t.st = "image" => t.link # NoLink
    /\ t.st = "write" => t.link # NoLink /\ t.img = HTTP_OK /\ t.artwork.image

\* the result iterator of the current page has yielded every result
PageComplete == pc = "wait" /\ wait_idx > Cardinality(Fs)

\* C1: per-record failure isolation.  No failure of a worker task leaves
\* start() or cancels another task; when the orchestrator has all results of
\* a page, every record of the page has a finished task of its own, the
\* writer was invoked for every record whose link and image fetch succeeded
\* (and for no other), and the orchestrator stands ready to go on.
C1_FailureIsolation ==
    /\ raised # "WorkerException"
    /\ raised = "none" => \A i \in TaskIds : tasks[i].st # "cancelled"
    /\ \A i \in TaskIds : AttachedBehindFetch(tasks[i])
    /\ PageComplete =>
        /\ Cardinality(Fs) = Len(artwork_list)
        /\ \A k \in 1..Len(artwork_list) :
               LET t == tasks[FsAt(k)]
               IN  /\ t.artwork.url = artwork_list[k].url
                   /\ t.st = "done"
                   /\ LinkAndImageOk(t) <=> t.wout # "unset"

\* a completed page on which one record failed before any bytes were attached
\* and the record after it was written
C1_Witness ==
    /\ PageComplete
    /\ Cardinality(Fs) = 2
    /\ ~tasks[FsAt(1)].artwork.image /\ tasks[FsAt(1)].result = "False"
    /\ tasks[FsAt(2)].wout = "True"

\* what _worker_task is to return for the outcomes a finished task went through
ExpectedResult(t) ==
    IF LinkAndImageOk(t) /\ t.wout \in {"True", "False"} THEN t.wout ELSE "False"

\* C2: the worker task always returns a boolean and never raises: the
\* writer's answer when the link was resolved and the image fetch returned
\* 200, False in every other case (a writer that raises gives no answer:
\* False).
C2_WorkerReturnsBoolean ==
    \A i \in TaskIds :
        LET t == tasks[i]
        IN  /\ t.st = "done" => t.result \in {"True", "False"}
            /\ t.st = "done" => t.result = ExpectedResult(t)
            /\ t.st # "done" => t.result = "unset"

\* two finished tasks: one returned the writer's False, one returned False
\* because the writer raised
C2_Witness ==
    \E i, j \in TaskIds :
        /\ tasks[i].st = "done" /\ tasks[i].wout = "False"
        /\ tasks[j].st = "done" /\ tasks[j].wout = "raise" /\ tasks[j].result = "False"

\* C3: page barrier.  Every task that is submitted and not finished belongs
\* to the page of the latest listing fetch, and the orchestrator stands at a
\* place where it requests a listing page or a page count only when no task
\* is unfinished.
C3_PageBarrier ==
    /\ \A i \in TaskIds :
           Unfinished(tasks[i]) =>
               /\ Len(visited) > 0 /\ Len(fetched) > 0
               /\ tasks[i].src = visited[Len(visited)].idx
               /\ tasks[i].page = fetched[Len(fetched)].page
               /\ tasks[i].src = src_idx /\ tasks[i].page = page
    /\ pc \in {"source", "page"} => \A i \in TaskIds : ~Unfinished(tasks[i])

\* the orchestrator waits on the second page of a source, one task finished,
\* one still running
C3_Witness ==
    /\ pc = "wait"
    /\ page = 2
    /\ \E i, j \in Fs : tasks[i].st = "done" /\ Running(tasks[j])

C5_Cancellation ==
    [][raised' = "KeyboardInterrupt" =>
        /\ visited' = visited
        /\ fetched' = fetched
        /\ src_idx' = src_idx
        /\ page' = page
        /\ Len(tasks') = Len(tasks)
        /\ pc' \in {"exit", "join", "close", "left"}
        /\ \A i \in TaskIds :
               /\ Running(tasks[i]) => Running(tasks'[i]) \/ tasks'[i].st = "done"
               /\ tasks[i].st = "done" => tasks'[i] = tasks[i]]_vars

\* after the interrupt, while the pool is being joined: a task that was
\* cancelled and a task that is still running
C5_Witness ==
    /\ raised = "KeyboardInterrupt"
    /\ pc = "join"
    /\ \E i, j \in TaskIds : Running(tasks[i]) /\ tasks[j].st = "cancelled"

\* the suffix of a category listing URL
IsCategoryListing(u) == u.suffix = "/page/{page}/?per_page=70"

\* C6: URL precedence.  With page URLs supplied, whatever the category list,
\* the run takes the URL branch, requests no page count of a category and no
\* listing page of a category; the category branch is taken only without
\* page URLs.
C6_UrlPrecedence ==
    /\ Truthy(scraper.page_urls) =>
        /\ mode \in {"unset", "url"}
        /\ \A i \in 1..Len(visited) : visited[i].kind = "url"
        /\ \A i \in 1..Len(fetched) : ~IsCategoryListing(fetched[i])
    /\ mode = "category" => ~Truthy(scraper.page_urls)
    /\ (\E i \in 1..Len(visited) : visited[i].kind = "category") =>
        ~Truthy(scraper.page_urls)

\* a finished run of a library caller that passed a category list and page
\* URLs: every URL was visited and a listing page was fetched
C6_Witness ==
    /\ pc = "left"
    /\ raised = "none"
    /\ scraper.entry = "library"
    /\ scraper.categories # CategoryType
    /\ Truthy(scraper.page_urls)
    /\ Len(visited) = Len(scraper.page_urls.items)
    /\ Len(fetched) > 0

\* the categories whose page count was requested, in the order of the requests
VisitedCategories == [i \in 1..Len(visited) |-> scraper.categories[visited[i].idx]]

\* a list is in canonical sorted order: no element is smaller than an earlier one
IsSorted(s) == \A i, j \in 1..Len(s) : i < j => ~CategoryType_lt(s[j], s[i])

\* C7: category order.  In category mode the categories are processed in
\* sorted order by value, for a requested subset and for the default of all
\* categories alike.
C7_CategoryOrder == mode = "category" => IsSorted(VisitedCategories)

\* C8: zero pages is a clean no-op.  While the page count of the current
\* category is 0, no listing page of it was requested and no task of it
\* exists, nothing was raised by it, and the orchestrator is at the page loop
\* of this category or already at the next category.
C8_ZeroPagesNoOp ==
    (mode = "category" /\ Len(visited) > 0 /\ page_count = 0) =>
        LET cur == visited[Len(visited)].idx
        IN  /\ fetched = << >>
            /\ \A i \in TaskIds : tasks[i].src # cur
            /\ raised \in {"none", "KeyboardInterrupt"}
            /\ pc \notin {"submit", "wait"}
            /\ pc = "page" => src_idx = cur /\ ENABLED NextSource
            /\ pc = "source" => src_idx = cur + 1

\* the page count of the first category was 0 and the orchestrator is about
\* to request the page count of the second
C8_Witness ==
    /\ mode = "category"
    /\ page_count = 0
    /\ pc = "source"
    /\ Len(visited) = 1
    /\ src_idx = 2
    /\ src_idx <= Len(Sources)
    /\ fetched = << >>

\* start() has returned normally
StartReturned == pc \in {"exit", "join", "close", "left"} /\ raised = "none"

\* C9: run completion.  Without an interrupt, whatever fails, start()
\* eventually returns normally, having requested the page count of every
\* source.
C9_RunCompletes == <>(StartReturned /\ Len(visited) = Len(Sources))

\* C10: pagination failure asymmetry.  On a transport exception or a status
\* other than 200, whatever the body, the resolver by URL returns 1 and the
\* resolver by category returns 0.
C10_PaginationFailure ==
    /\ (probe.fn = "_num_pages_for_page_url" /\ Failed(probe.resp)) => probe.pages = 1
    /\ (probe.fn = "_num_pages_for_category" /\ Failed(probe.resp)) => probe.pages = 0

\* the category resolver was given a 503 whose body holds a result count that
\* would parse to two pages
C10_Witness ==
    /\ probe.fn = "_num_pages_for_category"
    /\ probe.resp.status = 503
    /\ CategoryPagesFromBody(probe.resp.body) = 2
    /\ probe.pages = 0

\* the positions of "of N items" in a result-count text
OfItemsAt(text) ==
    {i \in 1..(Len(text) - 2) :
        text[i] = W_of /\ AllDigits(text[i + 1]) /\ text[i + 2] = W_items}

\* the least p with ITEMS_PER_PAGE * p >= N, N and p as decimal texts
LeastPages(t) ==
    LET x == DivMod(t, ITEMS_PER_PAGE)
    IN  IF x.r = 0 THEN x.q ELSE AddOne(x.q)

\* C11: page count by category.  For a result-count text "... of N items"
\* the resolver returns the least p with 70 * p >= N, for every N; without
\* the indicator or with a text of another form it returns 0.
C11_PageCountByCategory ==
    probe.fn = "result_count" =>
        LET at == IF probe.body.tag THEN OfItemsAt(probe.body.text) ELSE {}
        IN  IF at # {}
            THEN \A i \in at : probe.pages = LeastPages(probe.body.text[i + 1])
            ELSE probe.pages = <<"0">>

\* the numbers among the labels of a pagination control
NumericValues(body) ==
    {ParseInt(body.labels[i]).val :
        i \in {j \in 1..Len(body.labels) : ParseInt(body.labels[j]).ok}}

\* C12: page count by URL.  On a 200 the resolver returns the largest of the
\* numeric labels of the pagination control, whatever else the control
\* holds and wherever the largest stands; it returns 1 without a control
\* and for a control without a number.
C12_PageCountByUrl ==
    (/\ probe.fn = "_num_pages_for_page_url"
     /\ ~probe.resp.exc
     /\ probe.resp.status = HTTP_OK) =>
        LET body == probe.resp.body
            nums == IF body.pagination THEN NumericValues(body) ELSE {}
        IN  IF nums # {}
            THEN probe.pages \in nums /\ \A v \in nums : v <= probe.pages
            ELSE probe.pages = 1

\* the control 1 2 3 ... 5 gave 5, and a control whose largest number stands
\* first, before an ellipsis, gave that number
C12_Witness ==
    /\ probe.fn = "_num_pages_for_page_url"
    /\ probe.resp.status = HTTP_OK
    /\ probe.resp.body.pagination
    /\ probe.pages = 5
    /\ probe.resp.body.labels \in
           {<<DigitsOf(1), DigitsOf(2), DigitsOf(3), W_dots, DigitsOf(5)>>,
            <<DigitsOf(5), W_dots, DigitsOf(2)>>}

\* ---------------------------------------------------------------------------
\* Runs whose worker-thread count is any integer the configuration accepts
\* ---------------------------------------------------------------------------

\* the counts tried: --worker-threads is type=int with a metavar and a help
\* text only, the constructor takes its worker_threads as given
WorkerCounts == {0, 1, 16, 17}

\* the arguments of ArgSets, with these counts
PoolArgs ==
    {[a EXCEPT !.worker_threads = n] :
         a \in {b \in ArgSets : b.worker_threads = 1}, n \in WorkerCounts}

\* ThreadPoolExecutor(max_workers=worker_threads) raises ValueError for a
\* count below 1, and no scraper exists then
PoolInit ==
    /\ scraper \in {NewScraper(a) : a \in {b \in PoolArgs : b.worker_threads > 0}}
    /\ Fresh

PoolSpec == PoolInit /\ [][Next]_vars

\* C18: the pool of every run has between 1 and 16 workers, whatever count
\* the command line or the caller supplied
C18_PoolSizeBound == pc # "init" => (max_workers >= 1 /\ max_workers <= 16)

\* the worker tasks that execute right now
Executing == {i \in TaskIds : Running(tasks[i])}

\* a step of the program sends at most one request of the orchestrator: none,
\* the page-count request of the next source, or the next listing request
OneRequest ==
    \/ visited' = visited /\ fetched' = fetched
    \/ Len(visited') = Len(visited) + 1 /\ fetched' = << >>
    \/ visited' = visited /\ Len(fetched') = Len(fetched) + 1

\* C19: never more worker tasks execute at the same time than the configured
\* worker count, and the orchestrator resolves page counts and fetches
\* listings one at a time
C19_ConcurrencyBound ==
    /\ [](Cardinality(Executing) <= max_workers)
    /\ [][OneRequest]_vars

\* a pool of one worker executes one task of a page while the other one waits
\* in the queue
C19_Witness ==
    /\ max_workers = 1
    /\ Cardinality(Executing) = 1
    /\ \E i \in TaskIds : tasks[i].st = "pending"

\* the URL of a listing request
UrlOf(f) == [base |-> f.base, suffix |-> f.suffix, page |-> f.page]

\* the source whose pages are being fetched
Current == Sources[visited[Len(visited)].idx]

\* the page counts resolved so far are those of the first sources, one each,
\* and the listing pages fetched of the current source are its pages 1, 2, ...
\* up to its page count at most, one each and in this order
InOrder ==
    /\ \A i \in 1..Len(visited) : visited[i].idx = i
    /\ Len(fetched) <= page_count
    /\ \A i \in 1..Len(fetched) :
           UrlOf(fetched[i]) = IF mode = "url" THEN UrlPageUrl(Current, i)
                        ELSE CategoryPageUrl(Current, i)

\* start() is over and no interrupt ended it
Uninterrupted == pc \in {"exit", "join", "close", "left"} /\ raised # "KeyboardInterrupt"

\* C20: in an uninterrupted run every source has its page count N resolved
\* once, then exactly its listing pages 1..N are fetched, once each and in
\* increasing order, before the next source is started, and no source is left
\* out
C20_PageEnumeration ==
    /\ InOrder
    /\ (pc = "source" /\ Len(visited) > 0) =>
           (src_idx = Len(visited) + 1 /\ Len(fetched) = page_count)
    /\ Uninterrupted => (Len(visited) = Len(Sources) /\ Len(fetched) = page_count)

\* ---------------------------------------------------------------------------
\* One GET of the session that __init__ builds: the adapter mounted on http
\* and https sends the request again as its Retry object allows
\* ---------------------------------------------------------------------------

\* Retry(total=5, backoff_factor=0.1, status_forcelist=[500, 502, 503, 504]);
\* every other count is left unset, so only total limits the retries
status_forcelist == {500, 502, 503, 504}

\* the statuses Retry honours a Retry-After header on, as long as
\* respect_retry_after_header is left at its default
RETRY_AFTER_STATUS_CODES == {413, 429, 503}

\* what one attempt can end with: a response (with or without Retry-After
\* header), a connection error or connect timeout, a read timeout
Attempts ==
    {[kind |-> "response", status |-> st, retry_after |-> ra] :
         st \in {HTTP_OK, 404, 429, 503}, ra \in BOOLEAN}
    \cup {[kind |-> "connect"], [kind |-> "read"]}

\* Retry.is_retry for a GET: is this response to be retried
is_retry(total, resp) ==
    \/ resp.status \in status_forcelist
    \/ total # 0 /\ resp.retry_after /\ resp.status \in RETRY_AFTER_STATUS_CODES

\* whether the adapter consults Retry.increment after the attempt: on every
\* error of a GET, and on the responses is_retry selects
Retried(total, a) == a.kind # "response" \/ is_retry(total, a)

\* Retry.is_exhausted after increment took one off total
is_exhausted(total) == total - 1 < 0

\* self.session.get(...) is called
GetSend ==
    /\ probe = NoProbe
    /\ probe' = [fn |-> "session.get", total |-> RETRY_TOTAL, log |-> << >>,
                 outcome |-> "pending"]
    /\ RunUnchanged

\* one attempt ends; the GET returns the response, raises, or sleeps for the
\* backoff and sends again
GetAttempt ==
    /\ probe.fn = "session.get" /\ probe.outcome = "pending"
    /\ \E a \in Attempts :
           probe' = [probe EXCEPT
               !.log = Append(@, a),
               !.total = IF Retried(probe.total, a) THEN @ - 1 ELSE @,
               !.outcome = IF ~Retried(probe.total, a) THEN "response"
                           ELSE IF is_exhausted(probe.total) THEN "exception"
                           ELSE "pending"]
    /\ RunUnchanged

SessionNext ==
    \/ GetSend
    \/ GetAttempt

SessionSpec == ProbeInit /\ [][SessionNext]_vars

\* the attempt that ended the GET, or that it last saw
LastAttempt == probe.log[Len(probe.log)]

\* C17: a GET is sent again at most 5 times and only after a response with
\* status 500, 502, 503 or 504, never after a timeout, a connection error or
\* a 4xx; a response with a non-success status reaches the caller as a status
\* code, not as an exception
C17_RetryPolicy ==
    probe.fn = "session.get" =>
        /\ Len(probe.log) <= RETRY_TOTAL + 1
        /\ \A i \in 1..(Len(probe.log) - 1) :
               /\ probe.log[i].kind = "response"
               /\ probe.log[i].status \in status_forcelist
        /\ (probe.outcome # "pending" /\ LastAttempt.kind = "response")
               => probe.outcome = "response"

\* a block with title element and link whose parsing does not raise
WellFormed(block) == block.h3 /\ block.a /\ ~block.exc

OtherTier(size) == IF size = "MAX" THEN "STANDARD" ELSE "MAX"

\* C14: the resolver of a detail page returns the first candidate link whose
\* href begins with the prefix of the requested tier, never a link of the
\* other tier, and none when no candidate has the prefix or the page answers
\* non-200
C14_TierSelection ==
    probe.fn = "_image_link_from" =>
        LET prefix == ImageSize(probe.image_size)
            links  == probe.resp.body
            fits   == {i \in 1..Len(links) : StartsWith(links[i], prefix)}
        IN  /\ ~StartsWith(probe.link, ImageSize(OtherTier(probe.image_size)))
            /\ IF probe.resp.exc \/ probe.resp.status # HTTP_OK \/ fits = {}
               THEN probe.link = NoLink
               ELSE \E i \in fits : /\ probe.link = links[i]
                                     /\ \A j \in fits : i <= j

\* STANDARD was requested of a page that lists a MAX link, then two STANDARD
\* links: the first STANDARD link came back
C14_Witness ==
    /\ probe.fn = "_image_link_from" /\ probe.image_size = "STANDARD"
    /\ ~probe.resp.exc /\ probe.resp.status = HTTP_OK
    /\ probe.resp.body = <<ImageSize("MAX") \o <<"a.jpg">>,
                           ImageSize("STANDARD") \o <<"a.jpg">>,
                           ImageSize("STANDARD") \o <<"b.jpg">>>>
    /\ probe.link = ImageSize("STANDARD") \o <<"a.jpg">>

\* the positions of the opening parentheses of t before position c
Opens(t, c) == {i \in 1..(c - 1) : t[i] = "("}

\* the opening parenthesis of the trailing parenthetical of t
LastOpen(t) == CHOOSE p \in Opens(t, LastInk(t)) : \A o \in Opens(t, LastInk(t)) : o <= p

\* t has no trailing parenthetical
NoTrailing(t) ==
    \/ LastInk(t) = 0
    \/ t[LastInk(t)] # ")"
    \/ Opens(t, LastInk(t)) = {}

\* t reads "<title> (<date>)": it ends with a parenthetical that holds a date
\* and has a title before it
TitleForm(t) ==
    /\ ~NoTrailing(t)
    /\ Strip(SubSeq(t, 1, LastOpen(t) - 1)) # << >>
    /\ Strip(SubSeq(t, LastOpen(t) + 1, LastInk(t) - 1)) # << >>
    /\ \A i \in (LastOpen(t) + 1)..(LastInk(t) - 1) : t[i] # ")"

\* C15: a title "<title> (<date>)" is parsed into title = <title> and
\* date = <date>, both trimmed; a title without trailing parenthetical is
\* returned unchanged, its date unset
C15_TitleSplit ==
    (probe.fn = "_parse_metadata_html" /\ probe.part = "title") =>
        LET t == probe.text
        IN  /\ probe.r.ok
            /\ TitleForm(t) =>
                   /\ probe.r.artwork.title = Strip(SubSeq(t, 1, LastOpen(t) - 1))
                   /\ probe.r.artwork.date =
                          Strip(SubSeq(t, LastOpen(t) + 1, LastInk(t) - 1))
            /\ NoTrailing(t) =>
                   /\ probe.r.artwork.title = t
                   /\ probe.r.artwork.date = Unset

\* the first group of ^(.+)\s*\((.+)\)\s*$: the longest that matches
Greedy(gs) == CHOOSE g \in gs : \A o \in gs : o <= g

\* C16: title/date and artist/origin are split as ^(.+)\s*\((.+)\)\s*$ with a
\* greedy first group does: of several parentheticals only the last becomes
\* the date or origin, the earlier ones stay in the title or artist
C16_GreedySplit ==
    (probe.fn = "_parse_metadata_html" /\ Splits(probe.text) # {}) =>
        LET t     == probe.text
            g     == Greedy(Splits(t))
            main  == Strip(SubSeq(t, 1, g))
            paren == Strip(SubSeq(t, NextInk(t, g) + 1, LastInk(t) - 1))
        IN  IF probe.part = "title"
            THEN probe.r.artwork.title = main /\ probe.r.artwork.date = paren
            ELSE probe.r.artwork.artist = main /\ probe.r.artwork.origin = paren

\* the futures of the current page stand for its records, one each, in the
\* order of the listing
OneTaskEach ==
    /\ Cardinality(Fs) <= Len(artwork_list)
    /\ pc = "submit" => Cardinality(Fs) = sub_idx - 1
    /\ pc = "wait" => Cardinality(Fs) = Len(artwork_list)
    /\ \A k \in 1..Cardinality(Fs) :
           tasks[FsAt(k)].artwork.url = artwork_list[k].url

\* a record that is with the writer, or was, has its link and its bytes
HandedOver(t) ==
    /\ t.st = "write" => (t.link # NoLink /\ t.img = HTTP_OK /\ t.artwork.image)
    /\ t.wout # "unset" => (t.st = "done" /\ t.artwork.image)
    /\ (t.st = "done" /\ ~t.artwork.image) => t.wout = "unset"
    /\ t.st \in {"pending", "link", "image", "cancelled"} =>
           (t.wout = "unset" /\ ~t.artwork.image)

\* what one step may do to the i-th task: the writer is called on a task that
\* waits for it and was never written, the bytes are attached by the step
\* that received the 200, and a task that ends before ends without bytes and
\* without writer
OneHandOver(i) ==
    LET t == tasks[i]
        u == tasks'[i]
    IN  /\ u.wout # t.wout => (t.st = "write" /\ t.wout = "unset" /\ u.st = "done")
        /\ u.artwork.image # t.artwork.image =>
               (t.st = "image" /\ u.st = "write" /\ u.img = HTTP_OK /\ u.link # NoLink)
        /\ (t.st \in {"link", "image"} /\ u.st = "done") =>
               (u.wout = "unset" /\ ~u.artwork.image)
        /\ t.st = "done" => u = t

\* C21: every record of a listing page has one worker task; the writer gets
\* it at most once, and only after its link was resolved and its image fetch
\* returned 200 with the bytes attached; a record whose link or image failed
\* never gets to the writer and stays without image
C21_WriterHandOff ==
    /\ [](OneTaskEach /\ \A i \in TaskIds : HandedOver(tasks[i]))
    /\ [][Len(tasks') >= Len(tasks) => \A i \in TaskIds : OneHandOver(i)]_vars

\* of the two records of a page the first went to the writer with its bytes,
\* the second failed and never did
C21_Witness ==
    /\ pc = "wait" /\ Cardinality(Fs) = 2
    /\ tasks[FsAt(1)].st = "done" /\ tasks[FsAt(1)].artwork.image
    /\ tasks[FsAt(1)].wout \in {"True", "False"}
    /\ tasks[FsAt(2)].st = "done" /\ ~tasks[FsAt(2)].artwork.image
    /\ tasks[FsAt(2)].wout = "unset"

\* C22: a listing fetch that answers non-200 or raises is a skip: the page
\* yields no record and gets no worker task, nothing is raised, and the
\* orchestrator goes on to the next page of the same source
C22_ListingFailureSkips ==
    \A i \in 1..Len(fetched) :
        ~fetched[i].ok =>
            LET cur  == visited[Len(visited)].idx
                last == i = Len(fetched)
            IN  /\ \A j \in TaskIds : ~(tasks[j].src = cur /\ tasks[j].page = i)
                /\ raised \in {"none", "KeyboardInterrupt"}
                /\ (last /\ pc \in {"submit", "wait"}) =>
                       (page = i /\ src_idx = cur /\ artwork_list = << >>)
                /\ (last /\ pc = "submit") => ENABLED MapReturns
                /\ (last /\ pc = "wait") => ENABLED PageDone
                /\ (last /\ pc = "page") => (page = i + 1 /\ src_idx = cur)

\* the fetch of page 1 failed, and the orchestrator waits for the tasks of
\* page 2 of the same source
C22_Witness ==
    /\ Len(fetched) = 2 /\ ~fetched[1].ok /\ fetched[2].ok
    /\ pc = "wait" /\ page = 2
    /\ Cardinality(Fs) > 0

\* the i-th task gets the answer of its detail-page or image request in
\* this step
Answered(i) == tasks[i].st \in {"link", "image"} /\ tasks'[i] # tasks[i]

\* C23: the session is closed only after the shutdown of the pool has waited
\* for every worker task, so no task has a detail-page or image request on a
\* session that is closed
C23_SessionOutlivesWorkers ==
    /\ [](session_closed => \A i \in TaskIds : ~Unfinished(tasks[i]))
    /\ [][(~session_closed /\ session_closed') =>
              (pool_shutdown /\ \A i \in TaskIds : ~Unfinished(tasks[i]))]_vars
    /\ [][(Len(tasks') = Len(tasks) /\ \E i \in TaskIds : Answered(i)) =>
              (~session_closed /\ ~session_closed')]_vars

\* an interrupt left two tasks to the pool; both fetched their image before
\* the session was closed
C23_Witness ==
    /\ session_closed /\ raised = "KeyboardInterrupt"
    /\ Len(tasks) = 2
    /\ \A i \in TaskIds : tasks[i].st = "done" /\ tasks[i].artwork.image

\* the current source is through: the orchestrator is at the next source,
\* or start() returned
SourceDone ==
    \/ pc = "source" /\ src_idx = Len(visited) + 1
    \/ pc \in {"exit", "join", "close", "left"} /\ raised = "none"

\* C24: when the page-count request of a base URL fails (non-200 or a
\* transport exception), the orchestrator still fetches one listing page of
\* it, page 1 in its trailing-slash form, and no other; when the page-count
\* request of a category fails, no listing page of it is fetched
C24_UrlModeTriesPageOne ==
    (Len(visited) > 0 /\ ~count_ok) =>
        IF mode = "url"
        THEN /\ page_count = 1
             /\ Len(fetched) <= 1
             /\ \A i \in 1..Len(fetched) :
                    UrlOf(fetched[i]) = [base |-> RStrip(Current), suffix |-> "/", page |-> 1]
             /\ SourceDone => Len(fetched) = 1
        ELSE /\ page_count = 0
             /\ fetched = << >>

\* the page-count request of the second base URL failed, and page 1 of it
\* was fetched all the same
C24_Witness ==
    /\ mode = "url" /\ Len(visited) = 2 /\ ~count_ok
    /\ SourceDone
    /\ Len(fetched) = 1 /\ fetched[1].page = 1 /\ fetched[1].suffix = "/"

====
